---- MODULE Spec2Model ----
(***************************************************************************)
(* State-machine model of tac/agents/v1/base/game_instance.py: the Search  *)
(* id counter and the GameInstance (game state, timing gates, lock-adjusted *)
(* projections, owned subsystems).                                         *)
(*                                                                         *)
(* Time is an integer number of seconds.  The clock (datetime.now()) is an *)
(* environment variable that never runs backwards; an operation reads it   *)
(* when it is called.  An absent value (Python None) is the empty tuple    *)
(* and a present value v is the one-element tuple <<v>>.                    *)
(***************************************************************************)
EXTENDS Integers, Sequences, FiniteSets, TLC

\* ------------------------------------------------------------------ bounds
MaxTime == 1          \* clock horizon of Spec
MaxTimeLong == 13     \* clock horizon of TimingSpec
MaxInterval == 10     \* largest services_interval constructed in TimingSpec
MaxCtorDelay == 1     \* largest gap between the constructor's two clock readings
MaxIds == 3           \* search ids issued per run
MaxLocks == 1         \* transactions held per lock table
MaxTxs == 2           \* transactions carried by one state update
MaxGateInterval == 3  \* largest services_interval constructed in GateSpec
MaxArgs == 3          \* longest command line given to the liveness probe
MaxStarts == 2        \* backend processes launched per run of the dashboard

VARIABLES
    now,                  \* the clock: what datetime.datetime.now() returns
    constructed_at,       \* ghost: the clock when the constructor returned
    search_id,            \* Search._id
    issued,               \* ghost: the values get_next_id has returned, in order
    game_phase,           \* GameInstance._game_phase
    game_configuration,   \* GameInstance._game_configuration (optional)
    objects,              \* the AgentState objects, by object identity
    initial_agent_state,  \* GameInstance._initial_agent_state: optional reference
    agent_state,          \* GameInstance._agent_state: optional reference
    world_state,          \* GameInstance._world_state (optional)
    is_world_modeling,    \* strategy.is_world_modeling
    strategy,             \* the decision policy the instance was built with
    services_interval,    \* GameInstance._services_interval, in seconds
    last_update_time,     \* GameInstance._last_update_time
    last_search_time,     \* GameInstance._last_search_time
    locks_as_seller,      \* lock_manager.locks_as_seller.values(), insertion order
    locks_as_buyer,       \* lock_manager.locks_as_buyer.values(), insertion order
    lock_manager_running, \* the lock manager has been started and not stopped
    stats_manager_running,\* the statistics manager has been started and not stopped
    dashboard,            \* a dashboard is attached (GameInstance.dashboard is not None)
    dashboard_running,    \* the attached dashboard has been started and not stopped
    call,                 \* ghost: the last step taken: its name, argument and result
    raised,               \* ghost: the last call ended in an exception
    preceded_by,          \* ghost: the step before the last followed call, and whether it raised
    replayed,             \* ghost: the transactions settled on the agent state object, in order
    built_from,           \* ghost: the game data the initial agent state was built from
    update_calls,         \* ghost: calls of is_time_to_update_services so far (capped)
    search_calls,         \* ghost: calls of is_time_to_search_services so far (capped)
    update_fired_at,      \* ghost: the clock of the last update gate call that returned True
    search_fired_at,      \* ghost: the clock of the last search gate call that returned True
    proc,                 \* Dashboard._proc: the backend process handle (optional)
    viz,                  \* Dashboard.viz: the backend session handle (optional)
    live_procs,           \* environment: the backend processes launched and not terminated
    open_sessions,        \* environment: the backend sessions opened and not closed
    launched,             \* environment: the number of backend processes launched so far
    refreshes,            \* ghost: the panel titles refreshed by the last update(), in order
    scope,                \* where the `with d:` statement of the dashboard command is
    stops,                \* ghost: stop() calls since the last start() (capped)
    starting,             \* the call that is between the launch of a server process and the end of the wait after it: "no", "start", "enter", "helper"
    pc,                   \* the liveness probe: where the script is
    argv,                 \* the liveness probe: its command-line arguments
    stdout,               \* the liveness probe: the lines printed on standard output
    stderr,               \* the liveness probe: the lines printed on standard error
    exit_code,            \* the liveness probe: the exit code of the process (optional)
    session               \* the liveness probe: the broker session of the agent

vars == <<now, constructed_at, search_id, issued, game_phase, game_configuration,
          objects, initial_agent_state, agent_state, world_state, is_world_modeling,
          strategy, services_interval, last_update_time, last_search_time,
          locks_as_seller, locks_as_buyer, lock_manager_running,
          stats_manager_running, dashboard, dashboard_running,
          call, raised, preceded_by, replayed, built_from, update_calls, search_calls,
          update_fired_at, search_fired_at,
          proc, viz, live_procs, open_sessions, launched, refreshes, scope, stops, starting,
          pc, argv, stdout, stderr, exit_code, session>>

searchVars == <<search_id, issued>>
gameVars == <<game_phase, game_configuration, objects, initial_agent_state,
              agent_state, world_state, replayed, built_from>>
timeVars == <<last_update_time, last_search_time, update_calls, search_calls,
              update_fired_at, search_fired_at>>
lockVars == <<locks_as_seller, locks_as_buyer>>
ownedVars == <<lock_manager_running, stats_manager_running, dashboard_running>>
fixedVars == <<constructed_at, is_world_modeling, strategy, services_interval, dashboard,
               preceded_by>>
dashVars == <<proc, viz, live_procs, open_sessions, launched, refreshes, scope, stops, starting>>
probeVars == <<pc, argv, stdout, stderr, exit_code, session>>
instanceVars == <<now, searchVars, gameVars, timeVars, lockVars, ownedVars, fixedVars>>

\* The name of the last step taken, the argument of that call and what it
\* returned.
op == call[1]
arg == call[2]
ret == call[3]

None == <<>>
Some(v) == <<v>>
Min(a, b) == IF a < b THEN a ELSE b

\* ------------------------------------------------------------- GamePhase
PRE_GAME == "pre_game"
GAME_SETUP == "game_setup"
GAME == "game"
POST_GAME == "post_game"
GamePhase == {PRE_GAME, GAME_SETUP, GAME, POST_GAME}

\* ---------------------------------------------------------------- Search
\* Search.__init__: the counter starts at 0.
SearchInitId == 0

NextIdSkips(id) == id + 2
\* Search.get_next_id: self._id += 1
NextId(id) == id + 1

\* ----------------------------------------------------------- timing gates
\* round(services_interval / 2.0): Python rounds a half to the even neighbour.
RoundHalfUp(n) == (n + 1) \div 2
RoundHalf(n) ==
    LET k == n \div 2
    IN  IF n % 2 = 0 THEN k ELSE IF k % 2 = 0 THEN k ELSE k + 1

\* __init__: self._last_update_time = now() - services_interval
InitialUpdateTime(t, interval) == t - interval
\* __init__: self._last_search_time = now() - timedelta(0, round(services_interval / 2.0))
InitialSearchTime(t, interval) == t - RoundHalf(interval)

UpdateGateNotStrict(t, last, interval) == t - last >= interval
\* is_time_to_update_services: result = now - self.last_update_time > self.services_interval
UpdateGate(t, last, interval) == t - last > interval

\* is_time_to_search_services: result = now - self.last_search_time > self.services_interval
SearchGate(t, last, interval) == t - last > interval

\* is_time_to_update_services: if result: self._last_update_time = now
UpdateGateTime(t, last, result) == IF result THEN t ELSE last

\* is_time_to_search_services: if result: self._last_search_time = now
SearchGateTime(t, last, result) == IF result THEN t ELSE last

\* ------------------------------------------------- game data (tac.platform)
AgentPbks == {"agent_1", "agent_2", "agent_3"}
GoodPbks == <<"good_a", "good_b">>
Goods == DOMAIN GoodPbks

\* The attributes GameInstance.init reads from game_data, line by line.
ConfigAttrs == {"nb_agents", "nb_goods", "tx_fee", "agent_pbk_to_name", "good_pbk_to_name"}
StateAttrs == {"money", "endowment", "utility_params"}

\* A GameData message; `missing` names the attributes the payload lacks.
GameData(missing, fee, endowment) ==
    [missing |-> missing, endowment |-> endowment,
     nb_agents |-> Cardinality(AgentPbks), nb_goods |-> Len(GoodPbks),
     tx_fee |-> fee, agent_pbk_to_name |-> AgentPbks, good_pbk_to_name |-> GoodPbks,
     money |-> 10, utility_params |-> <<1, 2>>]

\* A settled or locked transaction, seen from this agent: its role, the money
\* amount and the quantity of each good that changes hands.
Transaction(buyer, amount, quantities) ==
    [buyer |-> buyer, amount |-> amount, quantities |-> quantities]

\* A StateUpdate message; `missing` names the attributes the payload lacks.
StateUpdate(missing, initial_state, transactions) ==
    [missing |-> missing, initial_state |-> initial_state, transactions |-> transactions]

\* GameConfiguration(nb_agents, nb_goods, tx_fee, agent_pbk_to_name, good_pbk_to_name)
GameConfiguration(nb_agents, nb_goods, tx_fee, agent_pbk_to_name, good_pbk_to_name) ==
    [nb_agents |-> nb_agents, nb_goods |-> nb_goods, tx_fee |-> tx_fee,
     agent_pbks |-> agent_pbk_to_name, good_pbks |-> good_pbk_to_name]

\* AgentState(money, endowment, utility_params): a fresh object holding its own
\* copy of the endowment.
AgentState(money, endowment, utility_params) ==
    [balance |-> money, current_holdings |-> endowment, utility_params |-> utility_params]

\* WorldState(opponent_pbks, good_pbks, initial_agent_state)
WorldState(opponent_pbks, good_pbks, initial_ref) ==
    [opponent_pbks |-> opponent_pbks, good_pbks |-> good_pbks, prior |-> initial_ref]

\* AgentState.update(tx, tx_fee): settle one transaction in place. A buyer pays
\* the amount plus the fee and receives the goods; a seller receives the amount
\* minus the fee and gives the goods.
AgentStateUpdate(s, tx, fee) ==
    [s EXCEPT
        !.balance = IF tx.buyer THEN @ - (tx.amount + fee) ELSE @ + (tx.amount - fee),
        !.current_holdings =
            [i \in DOMAIN @ |-> IF tx.buyer THEN @[i] + tx.quantities[i]
                                            ELSE @[i] - tx.quantities[i]]]

RECURSIVE AgentStateApply(_, _, _)
\* AgentState.apply(transactions, tx_fee): a copy of the state with every
\* transaction settled, in list order.
AgentStateApply(s, txs, fee) ==
    IF txs = <<>> THEN s
    ELSE AgentStateApply(AgentStateUpdate(s, Head(txs), fee), Tail(txs), fee)

\* --------------------------------------------------------------- strategy
\* The decision policies an instance is built with. Both supply all but one
\* unit of each good. The baseline policy demands one unit of every good; the
\* satiable policy demands one unit of the goods it holds fewer than two
\* units of.
Baseline == "baseline"
Satiable == "satiable"
Strategies == {Baseline, Satiable}

\* The policy demands good i on these holdings.
Demands(holdings, i) == strategy = Baseline \/ holdings[i] < 2

SuppliedGoodQuantities(holdings) ==
    [i \in DOMAIN holdings |-> IF holdings[i] > 1 THEN holdings[i] - 1 ELSE 0]
DemandedGoodQuantities(holdings) ==
    [i \in DOMAIN holdings |-> IF Demands(holdings, i) THEN 1 ELSE 0]
SuppliedGoodPbks(good_pbks, holdings) ==
    {good_pbks[i] : i \in {j \in DOMAIN good_pbks : holdings[j] > 1}}
DemandedGoodPbks(good_pbks, holdings) ==
    {good_pbks[i] : i \in {j \in DOMAIN good_pbks : Demands(holdings, j)}}

\* ------------------------------------------------------ GameInstance.init
\* Object identities: init builds two AgentState objects per call. An identity
\* names an object by the reference that holds it: the one the initial agent
\* state refers to, the one the agent state refers to, and the initial agent
\* state of an earlier call that a world state built by that call still
\* refers to. Every other object of an earlier call is no longer referenced.
ObjectIds == {1, 2, 3}
InitialObject == 1
\* init, line 145: the world state keeps the initial agent state it was built
\* from. Once a later call has bound self._initial_agent_state to a new object,
\* that earlier object is the one only the world state refers to.
RetainedObject == 3

AliasedAgentObject(initial_object) == initial_object
\* init, line 141: a second AgentState(...) call, so a second object.
AgentObject(initial_object) == initial_object + 1

\* The part of the instance that init and on_state_update write.
GameState == [cfg |-> game_configuration, objs |-> objects,
              initial |-> initial_agent_state, agent |-> agent_state,
              world |-> world_state, phase |-> game_phase,
              replayed |-> replayed, built_from |-> built_from, raised |-> FALSE]

Raise(st) == [st EXCEPT !.raised = TRUE]

\* The same part of an instance whose constructor has just returned.
FreshGameState == [cfg |-> None, objs |-> [o \in ObjectIds |-> None],
                   initial |-> None, agent |-> None, world |-> None,
                   phase |-> PRE_GAME, replayed |-> <<>>, built_from |-> None,
                   raised |-> FALSE]

\* init, lines 138-139: read the configuration attributes, build and store the
\* configuration.
InitConfiguration(st, g) ==
    IF ConfigAttrs \cap g.missing # {} THEN Raise(st)
    ELSE [st EXCEPT !.cfg = Some(GameConfiguration(g.nb_agents, g.nb_goods, g.tx_fee,
                                                    g.agent_pbk_to_name, g.good_pbk_to_name))]

\* init, line 140, rebinding self._initial_agent_state: the object it referred
\* to stays alive when the world state refers to it, and is then referred to
\* by the world state alone.
Retain(st) ==
    IF st.world # None /\ st.world[1].prior = Some(InitialObject)
    THEN [st EXCEPT !.objs[RetainedObject] = st.objs[InitialObject],
                    !.world = Some([st.world[1] EXCEPT !.prior = Some(RetainedObject)])]
    ELSE st

\* init, line 140: self._initial_agent_state = AgentState(money, endowment, utility_params)
InitInitialAgentState(st, g) ==
    IF StateAttrs \cap g.missing # {} THEN Raise(st)
    ELSE [Retain(st) EXCEPT !.initial = Some(InitialObject),
                    !.objs[InitialObject] =
                        Some(AgentState(g.money, g.endowment, g.utility_params)),
                    !.built_from = Some(g)]

InitAgentStateSkipped(st, g) == st
InitAgentStateKeepsExisting(st, g) ==
    IF StateAttrs \cap g.missing # {} THEN Raise(st)
    ELSE IF st.agent # None THEN st
    ELSE [st EXCEPT !.agent = Some(AgentObject(InitialObject)),
                    !.objs[AgentObject(InitialObject)] =
                        Some(AgentState(g.money, g.endowment, g.utility_params)),
                    !.replayed = <<>>]
\* init, line 141: self._agent_state = AgentState(money, endowment, utility_params)
InitAgentState(st, g) ==
    IF StateAttrs \cap g.missing # {} THEN Raise(st)
    ELSE [st EXCEPT !.agent = Some(AgentObject(InitialObject)),
                    !.objs[AgentObject(InitialObject)] =
                        Some(AgentState(g.money, g.endowment, g.utility_params)),
                    !.replayed = <<>>]

InitWorldStateKeepsOwn(st, agent_pbk, world_modeling) ==
    IF ~world_modeling THEN st
    ELSE LET agent_pbks == st.cfg[1].agent_pbks
         IN  IF agent_pbk \notin agent_pbks THEN Raise(st)
             ELSE [st EXCEPT !.world = Some(WorldState(agent_pbks, st.cfg[1].good_pbks,
                                                       st.initial)),
                             !.objs[RetainedObject] = None]
\* init, lines 142-145: with world modeling, the opponents are the configured
\* agents without agent_pbk; removing a key that is not configured raises. The
\* new world state refers to the current initial agent state, and the object
\* only the replaced world state referred to is gone.
InitWorldState(st, agent_pbk, world_modeling) ==
    IF ~world_modeling THEN st
    ELSE LET agent_pbks == st.cfg[1].agent_pbks
         IN  IF agent_pbk \notin agent_pbks THEN Raise(st)
             ELSE [st EXCEPT !.world = Some(WorldState(agent_pbks \ {agent_pbk},
                                                       st.cfg[1].good_pbks, st.initial)),
                             !.objs[RetainedObject] = None]

\* GameInstance.init(game_data, agent_pbk): the statements run in order and an
\* exception leaves what the earlier statements stored.
InitEffect(st, g, agent_pbk, world_modeling) ==
    LET s1 == InitConfiguration(st, g)
    IN  IF s1.raised THEN s1
        ELSE LET s2 == InitInitialAgentState(s1, g)
             IN  IF s2.raised THEN s2
                 ELSE LET s3 == InitAgentState(s2, g)
                      IN  IF s3.raised THEN s3
                          ELSE InitWorldState(s3, agent_pbk, world_modeling)

\* ------------------------------------------- GameInstance.on_state_update
ReplayReversed(txs) == [i \in 1..Len(txs) |-> txs[Len(txs) + 1 - i]]
\* on_state_update, line 158: for tx in state_update.transactions
ReplayOrder(txs) == txs

RECURSIVE Replay(_, _, _)
\* on_state_update, lines 158-159: self.agent_state.update(tx, tx_fee) for each
\* transaction, on the object self._agent_state refers to.
Replay(st, txs, fee) ==
    IF txs = <<>> THEN st
    ELSE LET ref == st.agent[1]
             s1 == [st EXCEPT !.objs[ref] = Some(AgentStateUpdate(@[1], Head(txs), fee)),
                              !.replayed = Append(@, Head(txs))]
         IN  Replay(s1, Tail(txs), fee)

PhaseAfterUpdateKept(phase) == phase
\* on_state_update, line 157: self._game_phase = GamePhase.GAME
PhaseAfterUpdate(phase) == GAME

OnStateUpdateEffectPhaseFirst(st, su, agent_pbk, world_modeling) ==
    LET s0 == [st EXCEPT !.phase = PhaseAfterUpdate(@)]
    IN  IF "initial_state" \in su.missing THEN Raise(s0)
        ELSE LET s1 == InitEffect(s0, su.initial_state, agent_pbk, world_modeling)
             IN  IF s1.raised \/ "transactions" \in su.missing THEN Raise(s1)
                 ELSE Replay(s1, ReplayOrder(su.transactions), su.initial_state.tx_fee)
\* GameInstance.on_state_update(state_update, agent_pbk)
OnStateUpdateEffect(st, su, agent_pbk, world_modeling) ==
    IF "initial_state" \in su.missing THEN Raise(st)
    ELSE LET s1 == InitEffect(st, su.initial_state, agent_pbk, world_modeling)
         IN  IF s1.raised THEN s1
             ELSE LET s2 == [s1 EXCEPT !.phase = PhaseAfterUpdate(@)]
                  IN  IF "transactions" \in su.missing THEN Raise(s2)
                      ELSE Replay(s2, ReplayOrder(su.transactions),
                                  su.initial_state.tx_fee)

\* --------------------------------------- GameInstance.state_after_locks
\* state_after_locks, lines 304-305: the transactions of the role's lock table
LocksOf(is_seller) == IF is_seller THEN locks_as_seller ELSE locks_as_buyer

\* The object self._agent_state refers to.
CurrentAgentState == objects[agent_state[1]][1]
\* The object self._initial_agent_state refers to.
CurrentInitialAgentState == objects[initial_agent_state[1]][1]

\* state_after_locks, line 306: self._agent_state.apply(transactions, tx_fee)
StateAfterLocks(is_seller) ==
    AgentStateApply(CurrentAgentState, LocksOf(is_seller), game_configuration[1].tx_fee)

HoldingsRaw(is_supply) == CurrentAgentState.current_holdings
\* get_goods_pbks / get_goods_quantities: state_after_locks(is_seller=is_supply).current_holdings
HoldingsForStrategy(is_supply) == StateAfterLocks(is_supply).current_holdings

\* get_goods_quantities, line 291
GoodsQuantities(is_supply) ==
    IF is_supply THEN SuppliedGoodQuantities(HoldingsForStrategy(is_supply))
    ELSE DemandedGoodQuantities(HoldingsForStrategy(is_supply))

\* get_goods_pbks, line 279
GoodsPbks(is_supply) ==
    IF is_supply
    THEN SuppliedGoodPbks(game_configuration[1].good_pbks, HoldingsForStrategy(is_supply))
    ELSE DemandedGoodPbks(game_configuration[1].good_pbks, HoldingsForStrategy(is_supply))

\* ------------------------------------------------------------- proposals
\* strategy.get_proposals: one candidate per good the role trades, in good order.
CandidateProposals(good_pbks, holdings, is_seller) ==
    LET offered(i) == IF is_seller THEN holdings[i] > 1 ELSE Demands(holdings, i)
        all == [i \in DOMAIN good_pbks |-> [good |-> good_pbks[i], offered |-> offered(i)]]
        kept == SelectSeq(all, LAMBDA c : c.offered)
    IN  [i \in DOMAIN kept |-> [good |-> kept[i].good, quantity |-> 1]]

\* query.check(proposal): the query is the set of goods it accepts.
QueryCheck(query, proposal) == proposal.good \in query

FilterProposalsNoFallback(query, candidates) ==
    SelectSeq(candidates, LAMBDA c : QueryCheck(query, c))
\* get_proposals, lines 322-328: the accepted candidates, or the first candidate
\* when none is accepted.
FilterProposals(query, candidates) ==
    LET proposals == SelectSeq(candidates, LAMBDA c : QueryCheck(query, c))
    IN  IF proposals = <<>> THEN <<candidates[1]>> ELSE proposals

\* ---------------------------------------------------------------- actions
Called(name, a, r, exc) == call' = <<name, a, r>> /\ raised' = exc

SetGameState(st) ==
    /\ game_configuration' = st.cfg
    /\ objects' = st.objs
    /\ initial_agent_state' = st.initial
    /\ agent_state' = st.agent
    /\ world_state' = st.world
    /\ game_phase' = st.phase
    /\ replayed' = st.replayed
    /\ built_from' = st.built_from

\* The clock advances by one second.
Tick(horizon) ==
    /\ now < horizon
    /\ now' = now + 1
    /\ Called("tick", None, None, FALSE)
    /\ UNCHANGED <<searchVars, gameVars, timeVars, lockVars, ownedVars, fixedVars, dashVars, probeVars>>

\* Search.get_next_id()
GetNextId ==
    /\ search_id < MaxIds
    /\ search_id' = NextId(search_id)
    /\ issued' = Append(issued, search_id')
    /\ Called("get_next_id", None, search_id', FALSE)
    /\ UNCHANGED <<now, gameVars, timeVars, lockVars, ownedVars, fixedVars, dashVars, probeVars>>

IsTimeToUpdateServicesShared ==
    LET result == UpdateGate(now, last_update_time, services_interval)
    IN  /\ last_update_time' = UpdateGateTime(now, last_update_time, result)
        /\ last_search_time' = UpdateGateTime(now, last_search_time, result)
        /\ update_calls' = Min(update_calls + 1, 2)
        /\ update_fired_at' = IF result THEN Some(now) ELSE update_fired_at
        /\ Called("is_time_to_update_services", None, result, FALSE)
        /\ UNCHANGED <<now, searchVars, gameVars, search_calls,
                       search_fired_at, lockVars, ownedVars, fixedVars, dashVars, probeVars>>
\* GameInstance.is_time_to_update_services()
IsTimeToUpdateServices ==
    LET result == UpdateGate(now, last_update_time, services_interval)
    IN  /\ last_update_time' = UpdateGateTime(now, last_update_time, result)
        /\ update_calls' = Min(update_calls + 1, 2)
        /\ update_fired_at' = IF result THEN Some(now) ELSE update_fired_at
        /\ Called("is_time_to_update_services", None, result, FALSE)
        /\ UNCHANGED <<now, searchVars, gameVars, last_search_time, search_calls,
                       search_fired_at, lockVars, ownedVars, fixedVars, dashVars, probeVars>>

\* GameInstance.is_time_to_search_services()
IsTimeToSearchServices ==
    LET result == SearchGate(now, last_search_time, services_interval)
    IN  /\ last_search_time' = SearchGateTime(now, last_search_time, result)
        /\ search_calls' = Min(search_calls + 1, 2)
        /\ search_fired_at' = IF result THEN Some(now) ELSE search_fired_at
        /\ Called("is_time_to_search_services", None, result, FALSE)
        /\ UNCHANGED <<now, searchVars, gameVars, last_update_time, update_calls,
                       update_fired_at, lockVars, ownedVars, fixedVars, dashVars, probeVars>>

\* GameInstance.init(game_data, agent_pbk)
InitCall(g, agent_pbk) ==
    LET st == InitEffect(GameState, g, agent_pbk, is_world_modeling)
    IN  /\ SetGameState(st)
        /\ Called("init", <<g, agent_pbk>>, None, st.raised)
        /\ UNCHANGED <<now, searchVars, timeVars, lockVars, ownedVars, fixedVars, dashVars, probeVars>>

\* GameInstance.on_state_update(state_update, agent_pbk)
OnStateUpdate(su, agent_pbk) ==
    LET st == OnStateUpdateEffect(GameState, su, agent_pbk, is_world_modeling)
    IN  /\ SetGameState(st)
        /\ Called("on_state_update", <<su, agent_pbk>>, None, st.raised)
        /\ UNCHANGED <<now, searchVars, timeVars, lockVars, ownedVars, fixedVars, dashVars, probeVars>>

\* GameInstance.init(game_data, agent_pbk), called while the strategy reports
\* world_modeling as its is_world_modeling flag.
InitCallUnder(g, agent_pbk, world_modeling) ==
    LET st == InitEffect(GameState, g, agent_pbk, world_modeling)
    IN  /\ is_world_modeling' = world_modeling
        /\ SetGameState(st)
        /\ Called("init", <<g, agent_pbk>>, None, st.raised)
        /\ UNCHANGED <<now, searchVars, timeVars, lockVars, ownedVars,
                       constructed_at, strategy, services_interval, dashboard, preceded_by,
                       dashVars, probeVars>>

\* GameInstance.on_state_update(state_update, agent_pbk), called while the
\* strategy reports world_modeling as its is_world_modeling flag.
OnStateUpdateUnder(su, agent_pbk, world_modeling) ==
    LET st == OnStateUpdateEffect(GameState, su, agent_pbk, world_modeling)
    IN  /\ is_world_modeling' = world_modeling
        /\ SetGameState(st)
        /\ Called("on_state_update", <<su, agent_pbk>>, None, st.raised)
        /\ UNCHANGED <<now, searchVars, timeVars, lockVars, ownedVars,
                       constructed_at, strategy, services_interval, dashboard, preceded_by,
                       dashVars, probeVars>>

\* GameInstance.on_state_update(state_update, agent_pbk), with the step it
\* follows kept on record.
OnStateUpdateFollowing(su, agent_pbk) ==
    LET st == OnStateUpdateEffect(GameState, su, agent_pbk, is_world_modeling)
    IN  /\ preceded_by' = <<op, arg, raised>>
        /\ SetGameState(st)
        /\ Called("on_state_update", <<su, agent_pbk>>, None, st.raised)
        /\ UNCHANGED <<now, searchVars, timeVars, lockVars, ownedVars,
                       constructed_at, is_world_modeling, strategy, services_interval,
                       dashboard,
                       dashVars, probeVars>>

\* A caller changes a holding of game_instance.agent_state in place.
SetHolding(i, q) ==
    /\ agent_state # None
    /\ objects' = [objects EXCEPT ![agent_state[1]] =
                       Some([@[1] EXCEPT !.current_holdings[i] = q])]
    /\ Called("set_holding", <<i, q>>, None, FALSE)
    /\ UNCHANGED <<now, searchVars, game_phase, game_configuration, initial_agent_state,
                   agent_state, world_state, replayed, built_from, timeVars, lockVars,
                   ownedVars, fixedVars, dashVars, probeVars>>

\* The agent's control loop moves the game to another phase.
SetPhase(phase) ==
    /\ game_phase # phase
    /\ game_phase' = phase
    /\ Called("set_phase", phase, None, FALSE)
    /\ UNCHANGED <<now, searchVars, game_configuration, objects, initial_agent_state,
                   agent_state, world_state, replayed, built_from, timeVars, lockVars,
                   ownedVars, fixedVars, dashVars, probeVars>>

\* The lock manager takes a lock on a pending transaction: in the seller table
\* when the agent sells in it, in the buyer table when the agent buys.
AddLock(tx) ==
    /\ Len(LocksOf(~tx.buyer)) < MaxLocks
    /\ locks_as_seller' = IF tx.buyer THEN locks_as_seller ELSE Append(locks_as_seller, tx)
    /\ locks_as_buyer' = IF tx.buyer THEN Append(locks_as_buyer, tx) ELSE locks_as_buyer
    /\ Called("add_lock", tx, None, FALSE)
    /\ UNCHANGED <<now, searchVars, gameVars, timeVars, ownedVars, fixedVars, dashVars, probeVars>>

\* The lock manager releases its oldest lock of a role (settled or timed out).
RemoveLock(is_seller) ==
    /\ LocksOf(is_seller) # <<>>
    /\ locks_as_seller' = IF is_seller THEN Tail(locks_as_seller) ELSE locks_as_seller
    /\ locks_as_buyer' = IF is_seller THEN locks_as_buyer ELSE Tail(locks_as_buyer)
    /\ Called("remove_lock", is_seller, None, FALSE)
    /\ UNCHANGED <<now, searchVars, gameVars, timeVars, ownedVars, fixedVars, dashVars, probeVars>>

StateAfterLocksInPlace(is_seller) ==
    /\ agent_state # None
    /\ objects' = [objects EXCEPT ![agent_state[1]] = Some(StateAfterLocks(is_seller))]
    /\ Called("state_after_locks", is_seller, Some(StateAfterLocks(is_seller)), FALSE)
    /\ UNCHANGED <<now, searchVars, game_phase, game_configuration, initial_agent_state,
                   agent_state, world_state, replayed, built_from, timeVars, lockVars,
                   ownedVars, fixedVars, dashVars, probeVars>>
\* GameInstance.state_after_locks(is_seller); before init there is no agent
\* state to apply the locks to and the call raises.
StateAfterLocksCall(is_seller) ==
    /\ IF agent_state = None
       THEN Called("state_after_locks", is_seller, None, TRUE)
       ELSE Called("state_after_locks", is_seller, Some(StateAfterLocks(is_seller)), FALSE)
    /\ UNCHANGED <<now, searchVars, gameVars, timeVars, lockVars, ownedVars, fixedVars, dashVars, probeVars>>

\* GameInstance.get_goods_pbks(is_supply)
GetGoodsPbks(is_supply) ==
    /\ IF agent_state = None
       THEN Called("get_goods_pbks", is_supply, None, TRUE)
       ELSE Called("get_goods_pbks", is_supply, Some(GoodsPbks(is_supply)), FALSE)
    /\ UNCHANGED <<now, searchVars, gameVars, timeVars, lockVars, ownedVars, fixedVars, dashVars, probeVars>>

\* GameInstance.get_goods_quantities(is_supply)
GetGoodsQuantities(is_supply) ==
    /\ IF agent_state = None
       THEN Called("get_goods_quantities", is_supply, None, TRUE)
       ELSE Called("get_goods_quantities", is_supply, Some(GoodsQuantities(is_supply)), FALSE)
    /\ UNCHANGED <<now, searchVars, gameVars, timeVars, lockVars, ownedVars, fixedVars, dashVars, probeVars>>

\* get_goods_quantities_description(good_pbks, quantities, is_supply)
GoodsQuantitiesDescription(good_pbks, quantities, is_supply) ==
    [good_pbks |-> good_pbks, quantities |-> quantities, is_supply |-> is_supply]

\* GameInstance.get_service_description(is_supply)
GetServiceDescription(is_supply) ==
    /\ IF game_configuration = None \/ agent_state = None
       THEN Called("get_service_description", is_supply, None, TRUE)
       ELSE Called("get_service_description", is_supply,
                   Some(GoodsQuantitiesDescription(game_configuration[1].good_pbks,
                                                   GoodsQuantities(is_supply), is_supply)),
                   FALSE)
    /\ UNCHANGED <<now, searchVars, gameVars, timeVars, lockVars, ownedVars, fixedVars, dashVars, probeVars>>

\* build_query(good_pbks, is_searching_for_sellers)
BuildQuery(good_pbks, is_searching_for_sellers) ==
    [good_pbks |-> good_pbks, is_searching_for_sellers |-> is_searching_for_sellers]

ServicesQuerySameRole(is_searching_for_sellers) ==
    LET good_pbks == GoodsPbks(is_searching_for_sellers)
    IN  IF Cardinality(good_pbks) = 0 THEN None
        ELSE Some(BuildQuery(good_pbks, is_searching_for_sellers))
\* build_services_query, lines 265-268
ServicesQuery(is_searching_for_sellers) ==
    LET good_pbks == GoodsPbks(~is_searching_for_sellers)
    IN  IF Cardinality(good_pbks) = 0 THEN None
        ELSE Some(BuildQuery(good_pbks, is_searching_for_sellers))

\* GameInstance.build_services_query(is_searching_for_sellers)
BuildServicesQuery(is_searching_for_sellers) ==
    /\ IF agent_state = None
       THEN Called("build_services_query", is_searching_for_sellers, None, TRUE)
       ELSE Called("build_services_query", is_searching_for_sellers,
                   Some(ServicesQuery(is_searching_for_sellers)), FALSE)
    /\ UNCHANGED <<now, searchVars, gameVars, timeVars, lockVars, ownedVars, fixedVars, dashVars, probeVars>>

\* GameInstance.get_proposals(query, is_seller); with no candidate at all,
\* candidate_proposals[0] raises.
GetProposals(query, is_seller) ==
    /\ IF agent_state = None
       THEN Called("get_proposals", <<query, is_seller>>, None, TRUE)
       ELSE LET candidates == CandidateProposals(game_configuration[1].good_pbks,
                                                 StateAfterLocks(is_seller).current_holdings,
                                                 is_seller)
            IN  IF candidates = <<>>
                THEN Called("get_proposals", <<query, is_seller>>, None, TRUE)
                ELSE Called("get_proposals", <<query, is_seller>>,
                            Some(FilterProposals(query, candidates)), FALSE)
    /\ UNCHANGED <<now, searchVars, gameVars, timeVars, lockVars, ownedVars, fixedVars, dashVars, probeVars>>

StopAlsoDashboard ==
    /\ lock_manager_running' = FALSE
    /\ stats_manager_running' = FALSE
    /\ dashboard_running' = FALSE
    /\ Called("stop", None, None, FALSE)
    /\ UNCHANGED <<now, searchVars, gameVars, timeVars, lockVars, fixedVars, dashVars, probeVars>>
\* GameInstance.stop()
Stop ==
    /\ lock_manager_running' = FALSE
    /\ stats_manager_running' = FALSE
    /\ UNCHANGED dashboard_running
    /\ Called("stop", None, None, FALSE)
    /\ UNCHANGED <<now, searchVars, gameVars, timeVars, lockVars, fixedVars, dashVars, probeVars>>

\* -------------------------------------------- tac/gui/dashboards/base.py
\* Dashboard.start() on the dashboard attached to the game instance
\* (gi.dashboard.start()): opens the session. Without a dashboard the call is
\* made on None and raises.
AttachedDashboardStart ==
    /\ dashboard_running' = IF dashboard THEN TRUE ELSE dashboard_running
    /\ Called("dashboard.start", None, None, ~dashboard)
    /\ UNCHANGED <<lock_manager_running, stats_manager_running>>
    /\ UNCHANGED <<now, searchVars, gameVars, timeVars, lockVars, fixedVars, dashVars, probeVars>>

\* Dashboard.stop() on the attached dashboard (gi.dashboard.stop()): drops the
\* session.
AttachedDashboardStop ==
    /\ dashboard_running' = IF dashboard THEN FALSE ELSE dashboard_running
    /\ Called("dashboard.stop", None, None, ~dashboard)
    /\ UNCHANGED <<lock_manager_running, stats_manager_running>>
    /\ UNCHANGED <<now, searchVars, gameVars, timeVars, lockVars, fixedVars, dashVars, probeVars>>

\* start_visdom_server(), lines 44-47: Popen launches the server process, or
\* raises.
StartVisdomServerLaunch(ok) ==
    /\ starting = "no"
    /\ launched < MaxStarts
    /\ IF ok
       THEN /\ live_procs' = live_procs \cup {launched + 1}
            /\ launched' = launched + 1
            /\ starting' = "helper"
            /\ Called("Popen", None, Some(launched + 1), FALSE)
       ELSE /\ UNCHANGED <<live_procs, launched, starting>>
            /\ Called("start_visdom_server", None, None, TRUE)
    /\ UNCHANGED <<proc, viz, open_sessions, refreshes, scope, stops>>
    /\ UNCHANGED <<instanceVars, probeVars>>

\* start_visdom_server(), lines 48-50: the wait ends and the process handle
\* is returned, or the wait is interrupted and the process stays alive with
\* no handle of it.
StartVisdomServerReturn(interrupted) ==
    /\ starting = "helper"
    /\ starting' = "no"
    /\ IF interrupted THEN Called("start_visdom_server", None, None, TRUE)
       ELSE Called("start_visdom_server", None, Some(launched), FALSE)
    /\ UNCHANGED <<proc, viz, live_procs, open_sessions, launched, refreshes, scope, stops>>
    /\ UNCHANGED <<instanceVars, probeVars>>

\* ------------------------------------------------------------------ inputs
Fees == {0, 1}
Endowments == {<<5, 1>>, <<2, 2>>}
\* Sell two units of good_a for 3; buy one unit of good_b for 2.
SellTwoA == Transaction(FALSE, 3, <<2, 0>>)
BuyOneB == Transaction(TRUE, 2, <<0, 1>>)
Txs == {SellTwoA, BuyOneB}
TxSeqs(n) == UNION {[1..k -> Txs] : k \in 0..n}
Missings == {{}, {"tx_fee"}, {"money"}}
OwnPbks == {"agent_2", "agent_9"}

GameDatas == {GameData(m, f, e) : m \in Missings, f \in Fees, e \in Endowments}
StateUpdates ==
    {StateUpdate({}, GameData({}, f, <<5, 1>>), t) : f \in Fees, t \in TxSeqs(MaxTxs)}
        \cup {StateUpdate({}, GameData(m, 1, <<2, 2>>), <<BuyOneB>>) : m \in Missings}
        \cup {StateUpdate({"transactions"}, GameData({}, 1, <<2, 2>>), <<>>),
              StateUpdate({"initial_state"}, GameData({}, 1, <<2, 2>>), <<>>)}

TradeEndowments == {<<3, 1>>, <<1, 1>>, <<5, 2>>}
\* The queries of incoming calls for proposals, as the goods they accept.
Queries == (SUBSET {"good_a", "good_b"}) \cup {{"good_c"}}

\* The game data of a round with fee 1, and the state update of that round
\* after one settled sale.
RoundGameData == GameData({}, 1, <<5, 1>>)
RoundStateUpdate == StateUpdate({}, RoundGameData, <<SellTwoA>>)

SmallGameDatas == {GameData(m, 1, <<5, 1>>) : m \in Missings}
SmallStateUpdates ==
    {StateUpdate({}, g, <<SellTwoA>>) : g \in SmallGameDatas}
        \cup {StateUpdate({"initial_state"}, GameData({}, 1, <<5, 1>>), <<>>)}

\* ------------------------------------------------- GameInstance.__init__
\* The state when the constructor returns: it was given the decision policy
\* `policy`, and it read the clock at `first` for the update gate and at
\* `second` for the search gate.
ConstructedWith(policy, interval, first, second, world_modeling, with_dashboard) ==
    /\ strategy = policy
    /\ now = second
    /\ constructed_at = second
    /\ search_id = SearchInitId
    /\ issued = <<>>
    /\ game_phase = PRE_GAME
    /\ game_configuration = None
    /\ objects = [o \in ObjectIds |-> None]
    /\ initial_agent_state = None
    /\ agent_state = None
    /\ world_state = None
    /\ is_world_modeling = world_modeling
    /\ services_interval = interval
    /\ last_update_time = InitialUpdateTime(first, interval)
    /\ last_search_time = InitialSearchTime(second, interval)
    /\ locks_as_seller = <<>>
    /\ locks_as_buyer = <<>>
    /\ lock_manager_running = TRUE
    /\ stats_manager_running = with_dashboard
    /\ dashboard = with_dashboard
    /\ dashboard_running = with_dashboard
    /\ call = <<"__init__", None, None>>
    /\ raised = FALSE
    /\ preceded_by = <<"__init__", None, FALSE>>
    /\ replayed = <<>>
    /\ built_from = None
    /\ update_calls = 0
    /\ search_calls = 0
    /\ update_fired_at = None
    /\ search_fired_at = None

\* The state when the constructor returns, given the baseline policy.
Constructed(interval, first, second, world_modeling, with_dashboard) ==
    ConstructedWith(Baseline, interval, first, second, world_modeling, with_dashboard)

\* ------------------------------------------------------ the other programs
\* Dashboard.__init__: no process handle and no session handle.
DashboardConstructed ==
    /\ proc = None
    /\ viz = None
    /\ live_procs = {}
    /\ open_sessions = {}
    /\ launched = 0
    /\ refreshes = <<>>
    /\ scope = "outside"
    /\ stops = 0
    /\ starting = "no"

\* The liveness probe script as it is started with the arguments args.
ProbeLoaded(args) ==
    /\ pc = "start"
    /\ argv = args
    /\ stdout = <<>>
    /\ stderr = <<>>
    /\ exit_code = None
    /\ session = "none"

\* ------------------------------------------------- tac/gui/dashboard.py
\* The part of the dashboard and of its backend that start, stop and update
\* read and write.
DashState == [proc |-> proc, viz |-> viz, live |-> live_procs, open |-> open_sessions,
              launched |-> launched, refreshes |-> refreshes, stops |-> stops,
              raised |-> FALSE]

\* _start_visdom_server, lines 25-28: Popen launches the server process, or
\* raises.
LaunchEffect(ds, ok) ==
    IF ~ok THEN Raise(ds)
    ELSE [ds EXCEPT !.live = @ \cup {ds.launched + 1}, !.launched = @ + 1, !.stops = 0]

\* How a start() call goes on after the launch: it is interrupted during the
\* wait of line 29, the wait ends and opening the session fails, or both
\* succeed.
StartOutcomes == {"interrupted", "session_fails", "ok"}

\* Dashboard.start after the launch: the wait of line 29 ends, line 46 stores
\* the handle of the launched process and line 47 opens the session. An
\* interrupt during the wait leaves the process alive and no handle of it.
StartEffect(ds, outcome) ==
    IF outcome = "interrupted" THEN Raise(ds)
    ELSE LET s1 == [ds EXCEPT !.proc = Some(ds.launched)]
         IN  IF outcome = "session_fails" THEN Raise(s1)
             ELSE [s1 EXCEPT !.viz = Some(ds.launched), !.open = @ \cup {ds.launched}]

\* Dashboard._is_running
IsRunning(ds) == ds.proc # None /\ ds.viz # None

StopEffectUnguarded(ds) ==
    IF ds.proc = None \/ ds.viz = None THEN Raise(ds)
    ELSE [ds EXCEPT !.live = @ \ {ds.proc[1]}, !.open = @ \ {ds.viz[1]},
                    !.proc = None, !.viz = None, !.stops = Min(@ + 1, 2)]
\* Dashboard.stop: terminate and close when running, then drop both handles.
StopEffect(ds) ==
    LET s1 == IF IsRunning(ds)
              THEN [ds EXCEPT !.live = @ \ {ds.proc[1]}, !.open = @ \ {ds.viz[1]}]
              ELSE ds
    IN  [s1 EXCEPT !.proc = None, !.viz = None, !.stops = Min(@ + 1, 2)]

PanelOrderInitialFirst ==
    <<"Configuration", "Utilities", "Initial Holdings", "Current Holdings", "Scores",
      "Balance history", "Balances">>
\* Dashboard.update, lines 57-63: the titles of the panels the seven calls
\* refresh, in call order.
PanelOrder ==
    <<"Configuration", "Utilities", "Current Holdings", "Initial Holdings", "Scores",
      "Balance history", "Balances">>

\* Dashboard.update: the calls run in order; without a session the first call
\* raises on self.viz, and the call numbered fail_at raises in the backend
\* (fail_at = 0: none does).
UpdateEffect(ds, fail_at) ==
    LET done == IF ds.viz = None THEN 0
                ELSE IF fail_at = 0 THEN Len(PanelOrder) ELSE fail_at - 1
        s1 == [ds EXCEPT !.refreshes = SubSeq(PanelOrder, 1, done)]
    IN  IF done < Len(PanelOrder) THEN Raise(s1) ELSE s1

SetDashState(ds) ==
    /\ proc' = ds.proc
    /\ viz' = ds.viz
    /\ live_procs' = ds.live
    /\ open_sessions' = ds.open
    /\ launched' = ds.launched
    /\ refreshes' = ds.refreshes
    /\ stops' = ds.stops

\* Dashboard.start() is called outside the `with` statement and runs up to
\* the launch of the server process (line 28).
DashStartLaunch(ok) ==
    LET ds == LaunchEffect(DashState, ok)
    IN  /\ scope # "inside"
        /\ starting = "no"
        /\ launched < MaxStarts
        /\ SetDashState(ds)
        /\ starting' = IF ok THEN "start" ELSE "no"
        /\ IF ok THEN Called("Popen", None, Some(ds.launched), FALSE)
           ELSE Called("start", "launch_fails", None, TRUE)
        /\ UNCHANGED <<scope, instanceVars, probeVars>>

\* The start() call in progress goes on from the wait of line 29 to its end.
DashStartFinish(outcome) ==
    LET ds == StartEffect(DashState, outcome)
    IN  /\ starting = "start"
        /\ SetDashState(ds)
        /\ starting' = "no"
        /\ Called("start", outcome, None, ds.raised)
        /\ UNCHANGED <<scope, instanceVars, probeVars>>

\* Dashboard.stop(), called outside the `with` statement.
DashStop ==
    LET ds == StopEffect(DashState)
    IN  /\ scope # "inside"
        /\ starting = "no"
        /\ SetDashState(ds)
        /\ Called("stop", None, None, ds.raised)
        /\ UNCHANGED <<scope, starting, instanceVars, probeVars>>

\* Dashboard.update()
DashUpdate(fail_at) ==
    LET ds == UpdateEffect(DashState, fail_at)
    IN  /\ starting = "no"
        /\ SetDashState(ds)
        /\ Called("update", fail_at, None, ds.raised)
        /\ UNCHANGED <<scope, starting, instanceVars, probeVars>>

\* `with d:` is entered: Dashboard.__enter__ calls d.start(), which runs up to
\* the launch of the server process. An exception in __enter__ leaves the
\* statement without running __exit__.
EnterLaunch(ok) ==
    LET ds == LaunchEffect(DashState, ok)
    IN  /\ scope = "outside"
        /\ starting = "no"
        /\ launched < MaxStarts
        /\ SetDashState(ds)
        /\ starting' = IF ok THEN "enter" ELSE "no"
        /\ scope' = IF ok THEN scope ELSE "left"
        /\ IF ok THEN Called("Popen", None, Some(ds.launched), FALSE)
           ELSE Called("__enter__", <<"launch_fails", 0>>, None, TRUE)
        /\ UNCHANGED <<instanceVars, probeVars>>

\* The __enter__ call in progress goes on: the rest of d.start(), then
\* d.update().
EnterFinish(outcome, fail_at) ==
    LET s1 == StartEffect(DashState, outcome)
        s2 == IF s1.raised THEN s1 ELSE UpdateEffect(s1, fail_at)
    IN  /\ starting = "enter"
        /\ SetDashState(s2)
        /\ starting' = "no"
        /\ scope' = IF s2.raised THEN "left" ELSE "inside"
        /\ Called("__enter__", <<outcome, fail_at>>, None, s2.raised)
        /\ UNCHANGED <<instanceVars, probeVars>>

\* The body of `with d:` ends (input() raises at end of input or on an
\* interrupt): Dashboard.__exit__ runs d.stop().
Exit ==
    LET ds == StopEffect(DashState)
    IN  /\ scope = "inside"
        /\ SetDashState(ds)
        /\ scope' = "left"
        /\ Called("__exit__", None, None, ds.raised)
        /\ UNCHANGED <<starting, instanceVars, probeVars>>

\* ------------------------------------------------- sandbox/oef_healthcheck
\* The words a command line is made of.
Tokens == {"127.0.0.1", "oef-node", "3333", "x", "-h", "--help", "-x", "--", "-1"}
Argvs == UNION {[1..n -> Tokens] : n \in 0..MaxArgs}

\* type=int of the port argument: int(token) succeeds.
IsInt(token) == token \in {"3333", "-1"}

\* The help option argparse adds to the parser built at line 29.
IsHelp(token) == token \in {"-h", "--help"}

\* What argparse takes for an option string: a word that starts with a dash
\* and is neither a negative number nor the separator "--".
IsOptionString(token) == token \in {"-h", "--help", "-x"}

\* The port argparse gives when the word for it is a "--" after the
\* separator: argparse strips that word from the words of the argument and
\* makes the value the list of the words left, the empty list, without
\* calling int(). It is written as the Connecting line prints it.
EmptyList == "[]"

\* parser.parse_args(), word by word from word i on. `values` are the
\* positional values taken so far (addr, then port), each written as the
\* Connecting line prints it, `extras` tells whether a word was left over,
\* `positional_only` whether the separator "--" was seen, after which every
\* word is a positional value. The help option ends the parse at once; so
\* does a port that int() refuses. A "--" after the separator is the value
\* "--" for addr and the empty list for port. An unknown option and a third
\* positional value are left over; at the end a missing positional value or
\* a left-over word is a usage error.
RECURSIVE ParseFrom(_, _, _, _, _)
ParseFrom(args, i, positional_only, values, extras) ==
    IF i > Len(args)
    THEN IF Len(values) < 2 \/ extras THEN [outcome |-> "error", values |-> values]
         ELSE [outcome |-> "ok", values |-> values]
    ELSE LET token == args[i]
         IN  IF ~positional_only /\ token = "--"
             THEN ParseFrom(args, i + 1, TRUE, values, extras)
             ELSE IF ~positional_only /\ IsHelp(token)
             THEN [outcome |-> "help", values |-> values]
             ELSE IF ~positional_only /\ IsOptionString(token)
             THEN ParseFrom(args, i + 1, positional_only, values, TRUE)
             ELSE IF Len(values) = 2
             THEN ParseFrom(args, i + 1, positional_only, values, TRUE)
             ELSE IF Len(values) = 1 /\ positional_only /\ token = "--"
             THEN ParseFrom(args, i + 1, positional_only, Append(values, EmptyList), extras)
             ELSE IF Len(values) = 1 /\ ~IsInt(token)
             THEN [outcome |-> "error", values |-> values]
             ELSE ParseFrom(args, i + 1, positional_only, Append(values, token), extras)

\* parser.parse_args() on the command line args.
Parse(args) == ParseFrom(args, 1, FALSE, <<>>, FALSE)

\* parser.parse_args() returns: both positional values were given, the port is
\* an integer and no word is left over.
ParseOk(args) == Parse(args).outcome = "ok"

\* The lines the script prints.
ConnectingLine(host, port) == [kind |-> "connecting", detail |-> <<host, port>>]
OkLine == [kind |-> "ok", detail |-> <<>>]
FailureLine(e) == [kind |-> "failure", detail |-> <<e>>]
\* The help argparse prints for -h and --help.
HelpLine == [kind |-> "help", detail |-> <<>>]

\* Lines 35-39: parse the arguments and announce the connection. On a usage
\* error argparse prints the usage and the error on standard error and raises
\* SystemExit(2); on the help option it prints the help on standard output
\* and raises SystemExit(0). `except Exception` catches neither.
ParseArgs ==
    /\ pc = "start"
    /\ LET parsed == Parse(argv)
       IN  IF parsed.outcome = "ok"
           THEN /\ stdout' = Append(stdout, ConnectingLine(parsed.values[1], parsed.values[2]))
                /\ pc' = "announced"
                /\ UNCHANGED <<stderr, exit_code>>
           ELSE IF parsed.outcome = "help"
           THEN /\ stdout' = Append(stdout, HelpLine)
                /\ exit_code' = Some(0)
                /\ pc' = "exited"
                /\ UNCHANGED stderr
           ELSE /\ stderr' = <<"usage", "error">>
                /\ exit_code' = Some(2)
                /\ pc' = "exited"
                /\ UNCHANGED stdout
    /\ Called("parse_args", argv, None, ~ParseOk(argv))
    /\ UNCHANGED <<argv, session, instanceVars, dashVars>>

\* Lines 45-47: print(str(e)); exit(1)
Fail(e) ==
    /\ stdout' = Append(stdout, FailureLine(e))
    /\ exit_code' = Some(1)
    /\ pc' = "exited"

\* Lines 40-41: build the agent and connect; the broker answers or the call raises.
Connect(ok) ==
    /\ pc = "announced"
    /\ IF ok THEN /\ session' = "connected"
                  /\ pc' = "connected"
                  /\ UNCHANGED <<stdout, exit_code>>
       ELSE Fail("connect") /\ UNCHANGED session
    /\ Called("connect", None, None, ~ok)
    /\ UNCHANGED <<argv, stderr, instanceVars, dashVars>>

\* Line 42: agent.disconnect()
Disconnect(ok) ==
    /\ pc = "connected"
    /\ IF ok THEN /\ session' = "disconnected"
                  /\ pc' = "disconnected"
                  /\ UNCHANGED <<stdout, exit_code>>
       ELSE Fail("disconnect") /\ UNCHANGED session
    /\ Called("disconnect", None, None, ~ok)
    /\ UNCHANGED <<argv, stderr, instanceVars, dashVars>>

\* Lines 43-44: print("OK!"); exit(0). SystemExit passes `except Exception`.
ReportOk ==
    /\ pc = "disconnected"
    /\ stdout' = Append(stdout, OkLine)
    /\ exit_code' = Some(0)
    /\ pc' = "exited"
    /\ Called("exit", None, None, FALSE)
    /\ UNCHANGED <<argv, stderr, session, instanceVars, dashVars>>

\* No dashboard command and no probe runs next to the game instance.
InstanceAlone == DashboardConstructed /\ ProbeLoaded(<<>>)

\* ---------------------------------------------------------- specifications
\* Spec: every operation of Search and GameInstance, on small inputs.
Init == Constructed(1, 0, 0, TRUE, TRUE) /\ InstanceAlone

Next ==
    \/ Tick(MaxTime)
    \/ GetNextId
    \/ IsTimeToUpdateServices
    \/ IsTimeToSearchServices
    \/ \E g \in SmallGameDatas : InitCall(g, "agent_2")
    \/ \E su \in SmallStateUpdates : OnStateUpdate(su, "agent_2")
    \/ SetPhase(POST_GAME)
    \/ AddLock(SellTwoA)
    \/ RemoveLock(TRUE)
    \/ StateAfterLocksCall(TRUE)
    \/ GetGoodsPbks(TRUE)
    \/ GetGoodsQuantities(TRUE)
    \/ GetServiceDescription(TRUE)
    \/ BuildServicesQuery(FALSE)
    \/ GetProposals({"good_b"}, TRUE)
    \/ Stop

Spec == Init /\ [][Next]_vars

\* TimingSpec: the clock, the two gates and the id counter, over every
\* services interval up to MaxInterval.
TimingInit ==
    \E interval \in 1..MaxInterval, second \in 0..MaxCtorDelay :
        Constructed(interval, 0, second, FALSE, FALSE) /\ InstanceAlone

TimingNext ==
    \/ Tick(MaxTimeLong)
    \/ IsTimeToUpdateServices
    \/ IsTimeToSearchServices

TimingSpec == TimingInit /\ [][TimingNext]_vars

\* GameSpec: init, on_state_update and in-place changes of the agent state,
\* over well-formed and malformed game data.
GameInit ==
    \E world_modeling \in BOOLEAN : Constructed(1, 0, 0, world_modeling, FALSE) /\ InstanceAlone

GameNext ==
    \/ \E g \in GameDatas, k \in OwnPbks : InitCall(g, k)
    \/ \E su \in StateUpdates, k \in OwnPbks : OnStateUpdate(su, k)
    \/ SetHolding(1, 0)
    \/ SetPhase(GAME_SETUP)

GameSpec == GameInit /\ [][GameNext]_vars

\* ResyncSpec: state updates arriving one after another and after init calls,
\* phase changes and in-place changes of the agent state.
ResyncUpdates ==
    {StateUpdate({}, GameData({}, 1, e), t) : e \in Endowments, t \in TxSeqs(MaxTxs)}
        \cup {StateUpdate({}, GameData({"money"}, 1, <<2, 2>>), <<BuyOneB>>)}

ResyncInit ==
    \E world_modeling \in BOOLEAN : Constructed(1, 0, 0, world_modeling, FALSE) /\ InstanceAlone

ResyncNext ==
    \/ \E e \in Endowments : InitCall(GameData({}, 0, e), "agent_2")
    \/ \E su \in ResyncUpdates : OnStateUpdateFollowing(su, "agent_2")
    \/ SetHolding(1, 0)
    \/ SetPhase(POST_GAME)

ResyncSpec == ResyncInit /\ [][ResyncNext]_vars

\* LockSpec: the lock tables change under the projections that read them.
LockInit == Constructed(1, 0, 0, FALSE, FALSE) /\ InstanceAlone

LockNext ==
    \/ \E e \in Endowments : InitCall(GameData({}, 1, e), "agent_2")
    \/ \E t \in TxSeqs(1) :
          OnStateUpdate(StateUpdate({}, GameData({}, 1, <<5, 1>>), t), "agent_2")
    \/ \E tx \in Txs : AddLock(tx)
    \/ \E b \in BOOLEAN : RemoveLock(b)
    \/ \E b \in BOOLEAN : StateAfterLocksCall(b)
    \/ \E b \in BOOLEAN : GetGoodsPbks(b)
    \/ \E b \in BOOLEAN : GetGoodsQuantities(b)

LockSpec == LockInit /\ [][LockNext]_vars

\* TradeSpec: service queries and proposals under either decision policy, over
\* holdings and locks that make the supplied good set and the demanded good
\* set empty or not.
TradeInit ==
    \E policy \in Strategies : ConstructedWith(policy, 1, 0, 0, FALSE, FALSE) /\ InstanceAlone

TradeNext ==
    \/ \E e \in TradeEndowments : InitCall(GameData({}, 1, e), "agent_2")
    \/ \E tx \in Txs : AddLock(tx)
    \/ \E b \in BOOLEAN : RemoveLock(b)
    \/ \E b \in BOOLEAN : BuildServicesQuery(b)
    \/ \E q \in Queries, b \in BOOLEAN : GetProposals(q, b)

TradeSpec == TradeInit /\ [][TradeNext]_vars

\* WorldSpec: init and on_state_update under a strategy whose world-modeling
\* flag may differ from one call to the next, between other operations.
WorldInit ==
    \E world_modeling \in BOOLEAN : Constructed(1, 0, 0, world_modeling, FALSE) /\ InstanceAlone

WorldNext ==
    \/ \E g \in SmallGameDatas, k \in OwnPbks, b \in BOOLEAN : InitCallUnder(g, k, b)
    \/ \E su \in SmallStateUpdates, b \in BOOLEAN : OnStateUpdateUnder(su, "agent_2", b)
    \/ SetHolding(1, 0)
    \/ GetNextId
    \/ IsTimeToUpdateServices
    \/ \E q \in Queries : GetProposals(q, FALSE)
    \/ Stop

WorldSpec == WorldInit /\ [][WorldNext]_vars

\* LifecycleSpec: the owned subsystems of an instance built with or without a
\* dashboard, under the operations of a round, stop() and the attached
\* dashboard's own start() and stop().
LifecycleInit ==
    \E with_dashboard \in BOOLEAN : Constructed(1, 0, 0, FALSE, with_dashboard) /\ InstanceAlone

LifecycleNext ==
    \/ Tick(MaxTime)
    \/ GetNextId
    \/ IsTimeToUpdateServices
    \/ IsTimeToSearchServices
    \/ InitCall(RoundGameData, "agent_2")
    \/ OnStateUpdate(RoundStateUpdate, "agent_2")
    \/ AddLock(SellTwoA)
    \/ GetGoodsQuantities(TRUE)
    \/ Stop
    \/ AttachedDashboardStart
    \/ AttachedDashboardStop

LifecycleSpec == LifecycleInit /\ [][LifecycleNext]_vars

\* GateSpec: the two gates polled in any interleaving, between a state update
\* and the issue of search ids.
GateInit ==
    \E interval \in 1..MaxGateInterval : Constructed(interval, 0, 0, FALSE, FALSE) /\ InstanceAlone

GateNext ==
    \/ Tick(MaxTimeLong)
    \/ IsTimeToUpdateServices
    \/ IsTimeToSearchServices
    \/ GetNextId
    \/ OnStateUpdate(RoundStateUpdate, "agent_2")

GateSpec == GateInit /\ [][GateNext]_vars

\* ProbeSpec: one run of the liveness probe on every command line of up to
\* MaxArgs words, against a broker that answers or fails.
ProbeInit ==
    \E args \in Argvs :
        Constructed(1, 0, 0, FALSE, FALSE) /\ DashboardConstructed /\ ProbeLoaded(args)

ProbeNext ==
    \/ ParseArgs
    \/ \E ok \in BOOLEAN : Connect(ok)
    \/ \E ok \in BOOLEAN : Disconnect(ok)
    \/ ReportOk

ProbeSpec == ProbeInit /\ [][ProbeNext]_vars

\* DashSpec: the simulation dashboard, driven by direct calls and by the `with`
\* statement of its command, over a backend that may fail, next to the server
\* helper of dashboards/base.py.
DashInit ==
    Constructed(1, 0, 0, FALSE, FALSE) /\ DashboardConstructed /\ ProbeLoaded(<<>>)

DashNext ==
    \/ \E ok \in BOOLEAN : DashStartLaunch(ok)
    \/ \E outcome \in StartOutcomes : DashStartFinish(outcome)
    \/ DashStop
    \/ \E fail_at \in 0..Len(PanelOrder) : DashUpdate(fail_at)
    \/ \E ok \in BOOLEAN : EnterLaunch(ok)
    \/ \E outcome \in StartOutcomes, fail_at \in 0..Len(PanelOrder) : EnterFinish(outcome, fail_at)
    \/ Exit
    \/ \E ok \in BOOLEAN : StartVisdomServerLaunch(ok)
    \/ \E interrupted \in BOOLEAN : StartVisdomServerReturn(interrupted)

DashSpec == DashInit /\ [][DashNext]_vars

\* ------------------------------------------------------------------ claims

\* C1: the ids get_next_id returns are exactly 1, 2, ..., N in that order,
\* whatever GameInstance operations run in between; the counter is never reset,
\* and Search.id equals the value most recently returned (0 before any call).
C1_SearchIdsSequential ==
    /\ \A i \in 1..Len(issued) : issued[i] = i
    /\ search_id = Len(issued)
    /\ op = "get_next_id" => ret = search_id /\ ret = issued[Len(issued)]

\* Two ids were issued around a completed state update, a gate that fired and stop().
C1_Witness ==
    /\ Len(issued) >= 2
    /\ game_phase = GAME
    /\ update_fired_at # None
    /\ ~lock_manager_running
    /\ op = "get_next_id"

\* C2: each gate returns true exactly when the clock is more than
\* services_interval past its own last time; a true result moves that last time
\* to the clock and a false result leaves it alone, so two true results of one
\* gate are more than services_interval apart.
C2_GatesAreCooldowns ==
    [][/\ op' = "is_time_to_update_services" =>
            LET result == now - last_update_time > services_interval
            IN  /\ ret' = result
                /\ last_update_time' = IF result THEN now ELSE last_update_time
                /\ (result /\ update_fired_at # None) =>
                       now - update_fired_at[1] > services_interval
       /\ op' = "is_time_to_search_services" =>
            LET result == now - last_search_time > services_interval
            IN  /\ ret' = result
                /\ last_search_time' = IF result THEN now ELSE last_search_time
                /\ (result /\ search_fired_at # None) =>
                       now - search_fired_at[1] > services_interval
      ]_vars

\* The update gate fired twice (with the constructor's second clock reading one
\* second after the first, every first call fires) and the search gate has fired.
C2_Witness ==
    /\ op = "is_time_to_update_services"
    /\ ret = TRUE
    /\ update_calls = 2
    /\ constructed_at = 1
    /\ services_interval = 10
    /\ search_fired_at # None

\* C3: with a positive services interval the first is_time_to_update_services()
\* call, made with no time elapsed since construction, returns true, and a
\* second call made right after it returns false.
C3_FirstUpdateCallSucceeds ==
    (op = "is_time_to_update_services" /\ now = constructed_at /\ services_interval > 0) =>
        /\ update_calls = 1 => ret = TRUE
        /\ update_calls = 2 => ret = FALSE

\* C4 as claimed: the first is_time_to_search_services() call returns false when
\* made with no time elapsed since construction and true once at least half the
\* services interval has elapsed (5 seconds of 10).
C4_SearchAfterHalfInterval ==
    (op = "is_time_to_search_services" /\ search_calls = 1) =>
        /\ now = constructed_at => ret = FALSE
        /\ 2 * (now - constructed_at) >= services_interval => ret = TRUE

\* The elapsed time the first search check has to exceed: the interval less its
\* half rounded to a whole second, the half of an odd interval going to the
\* even neighbour.
FirstSearchDelay(interval) ==
    IF interval % 2 = 0 THEN interval \div 2
    ELSE IF interval % 4 = 1 THEN (interval + 1) \div 2
    ELSE (interval - 1) \div 2

\* C4 as amended: the first is_time_to_search_services() call returns false when
\* made with no time elapsed since construction, and returns true exactly when
\* more than services_interval - round(services_interval / 2) seconds have
\* elapsed since the constructor read the clock (more than 5 seconds of 10).
C4_SearchAfterMoreThanHalfInterval ==
    (op = "is_time_to_search_services" /\ search_calls = 1) =>
        /\ now = constructed_at => ret = FALSE
        /\ ret = (now - constructed_at > FirstSearchDelay(services_interval))

\* The first search check of a 10 second instance, made 6 seconds after
\* construction, returned true.
C4_Witness ==
    /\ op = "is_time_to_search_services"
    /\ search_calls = 1
    /\ services_interval = 10
    /\ now - constructed_at = 6
    /\ ret = TRUE

AllAbsent ==
    game_configuration = None /\ initial_agent_state = None /\ agent_state = None
AllPresent ==
    game_configuration # None /\ initial_agent_state # None /\ agent_state # None

\* C5 as claimed: in every reachable state, also after an init or
\* on_state_update call that failed part-way, the game configuration, the
\* initial agent state and the agent state are all absent or all present.
C5_AllThreeOrNone == AllAbsent \/ AllPresent

\* C5 as amended: the initial agent state and the agent state are both absent
\* or both present, and the game configuration is present whenever they are;
\* all three are absent until the first init or on_state_update call and all
\* three are present after every such call that completes.
C5_AllThreeAfterCompletedInit ==
    /\ (initial_agent_state = None) = (agent_state = None)
    /\ agent_state # None => game_configuration # None
    /\ op = "__init__" => AllAbsent
    /\ (op \in {"init", "on_state_update"} /\ ~raised) => AllPresent

\* An on_state_update call has completed and all three are present.
C5_Witness ==
    op = "on_state_update" /\ ~raised /\ AllPresent

\* C6: game_phase starts at pre_game; no operation of the instance other than
\* on_state_update changes it, and every on_state_update call that completes
\* leaves it at game whatever it was before.
C6_OnlyStateUpdateSetsPhase ==
    /\ op = "__init__" => game_phase = PRE_GAME
    /\ [][/\ op' \notin {"on_state_update", "set_phase"} => game_phase' = game_phase
          /\ (op' = "on_state_update" /\ ~raised') => game_phase' = GAME
         ]_vars

\* A state update completed after the control loop had ended the game, and the
\* phase is game again.
C6_Witness ==
    /\ op = "on_state_update" /\ ~raised
    /\ game_phase = GAME
    /\ ~lock_manager_running

\* What a completed init leaves behind for game data g.
BuiltConfiguration(g) ==
    [nb_agents |-> g.nb_agents, nb_goods |-> g.nb_goods, tx_fee |-> g.tx_fee,
     agent_pbks |-> g.agent_pbk_to_name, good_pbks |-> g.good_pbk_to_name]
BuiltAgentState(g) ==
    [balance |-> g.money, current_holdings |-> g.endowment,
     utility_params |-> g.utility_params]

\* C7: a completed on_state_update has run init from the embedded initial state,
\* has set the phase to game and has settled the transactions of the update one
\* by one in list order with the initial state's fee: the agent state is the
\* initial agent state with the whole list folded over it.
C7_StateUpdateReplaysInOrder ==
    (op = "on_state_update" /\ ~raised) =>
        LET su == arg[1]
            g == su.initial_state
        IN  /\ game_configuration = Some(BuiltConfiguration(g))
            /\ CurrentInitialAgentState = BuiltAgentState(g)
            /\ game_phase = GAME
            /\ replayed = su.transactions
            /\ CurrentAgentState = AgentStateApply(BuiltAgentState(g), su.transactions, g.tx_fee)

\* A state update with two different transactions completed.
C7_Witness ==
    /\ op = "on_state_update" /\ ~raised
    /\ Len(arg[1].transactions) = 2
    /\ arg[1].transactions[1] # arg[1].transactions[2]
    /\ CurrentAgentState # CurrentInitialAgentState

\* C8: right after init the agent state equals the initial agent state, and
\* whatever later changes the agent state (the replay of a state update, a
\* caller changing a holding in place), the initial agent state stays the state
\* built from the money, endowment and utility parameters of its game data.
C8_InitialAgentStateIndependent ==
    /\ initial_agent_state # None =>
           CurrentInitialAgentState = BuiltAgentState(built_from[1])
    /\ (op = "init" /\ agent_state # None /\ StateAttrs \cap arg[1].missing = {}
            /\ ConfigAttrs \cap arg[1].missing = {}) =>
           /\ built_from = Some(arg[1])
           /\ CurrentAgentState = CurrentInitialAgentState

\* A holding of the agent state was changed in place after a replay, and the
\* initial agent state no longer equals the agent state.
C8_Witness ==
    /\ op = "set_holding"
    /\ replayed # <<>>
    /\ CurrentAgentState.current_holdings # CurrentInitialAgentState.current_holdings
    /\ CurrentAgentState.current_holdings[1] = 0

\* The quantity of good i that the transactions of a lock table give away (as
\* seller) or bring in (as buyer).
RECURSIVE LockedQuantity(_, _)
LockedQuantity(txs, i) ==
    IF txs = <<>> THEN 0 ELSE Head(txs).quantities[i] + LockedQuantity(Tail(txs), i)

\* C9: state_after_locks(is_seller) returns the agent state with every
\* transaction of the seller lock table (is_seller) or of the buyer lock table
\* (otherwise) settled, and changes neither the agent state nor the lock tables.
C9_StateAfterLocksIsProjection ==
    [][op' = "state_after_locks" =>
          /\ objects' = objects
          /\ agent_state' = agent_state
          /\ locks_as_seller' = locks_as_seller
          /\ locks_as_buyer' = locks_as_buyer
          /\ ~raised' =>
                LET table == IF arg' THEN locks_as_seller ELSE locks_as_buyer
                    real == objects[agent_state[1]][1]
                    projected == ret'[1]
                IN  /\ projected = AgentStateApply(real, table, game_configuration[1].tx_fee)
                    /\ \A i \in Goods :
                          projected.current_holdings[i] =
                              IF arg' THEN real.current_holdings[i] - LockedQuantity(table, i)
                              ELSE real.current_holdings[i] + LockedQuantity(table, i)
      ]_vars

\* Holding 5 units with a seller lock on 2 of them projects to 3, and the agent
\* state still holds 5.
C9_Witness ==
    /\ op = "state_after_locks" /\ arg = TRUE /\ ~raised
    /\ locks_as_seller = <<SellTwoA>>
    /\ CurrentAgentState.current_holdings[1] = 5
    /\ ret[1].current_holdings[1] = 3

\* C10: get_goods_pbks(is_supply) and get_goods_quantities(is_supply) evaluate
\* the strategy on the holdings of state_after_locks(is_supply), not on the
\* holdings of the agent state: the units of a good that a seller lock gives
\* away are not offered as supply.
C10_SupplyExcludesLockedGoods ==
    LET table == IF arg THEN locks_as_seller ELSE locks_as_buyer
        after == AgentStateApply(CurrentAgentState, table,
                                 game_configuration[1].tx_fee).current_holdings
        free(i) == CurrentAgentState.current_holdings[i] - LockedQuantity(locks_as_seller, i)
    IN  /\ (op = "get_goods_quantities" /\ ~raised) =>
              /\ ret[1] = IF arg THEN SuppliedGoodQuantities(after)
                          ELSE DemandedGoodQuantities(after)
              /\ arg => \A i \in Goods : ret[1][i] = 0 \/ ret[1][i] <= free(i)
        /\ (op = "get_goods_pbks" /\ ~raised) =>
              /\ ret[1] = IF arg THEN SuppliedGoodPbks(GoodPbks, after)
                          ELSE DemandedGoodPbks(GoodPbks, after)
              /\ arg => \A i \in Goods : GoodPbks[i] \in ret[1] => free(i) > 0

\* Holding 5 units of good_a with a seller lock on 2 of them, the supply offered
\* is 2 units (3 less the one the strategy keeps), not the 4 of the raw holding.
C10_Witness ==
    /\ op = "get_goods_quantities" /\ arg = TRUE /\ ~raised
    /\ locks_as_seller = <<SellTwoA>>
    /\ CurrentAgentState.current_holdings[1] = 5
    /\ ret[1][1] = 2

\* C11: build_services_query(is_searching_for_sellers) takes the goods of the
\* opposite role on the lock-adjusted holdings (the goods the policy demands
\* with the buyer locks settled when searching for sellers, the goods it
\* supplies with the seller locks settled when searching for buyers), returns
\* None exactly when that set is empty and otherwise the query over that set
\* and the flag.
C11_QueryOverOppositeRoleGoods ==
    (op = "build_services_query" /\ ~raised) =>
        LET table == IF arg THEN locks_as_buyer ELSE locks_as_seller
            after == AgentStateApply(CurrentAgentState, table,
                                     game_configuration[1].tx_fee).current_holdings
            demanded == {j \in Goods : strategy = Baseline \/ after[j] < 2}
            supplied == {j \in Goods : after[j] > 1}
            goods == {GoodPbks[i] : i \in IF arg THEN demanded ELSE supplied}
        IN  /\ (ret[1] = None) = (goods = {})
            /\ goods # {} =>
                   ret[1] = Some([good_pbks |-> goods, is_searching_for_sellers |-> arg])

\* Under the satiable policy, holding 3 units of good_a and 1 of good_b with a
\* buyer lock on 1 unit of good_b, the policy demands good_b on the holdings of
\* the agent state and nothing on the lock-adjusted holdings <<3, 2>>, and the
\* search for sellers has no query.
C11_Witness ==
    /\ op = "build_services_query" /\ arg = TRUE /\ ~raised
    /\ strategy = Satiable
    /\ CurrentAgentState.current_holdings = <<3, 1>>
    /\ locks_as_buyer = <<BuyOneB>>
    /\ locks_as_seller = <<>>
    /\ ret[1] = None

\* C12: with at least one candidate from the strategy, get_proposals returns
\* the candidates the query accepts, in candidate order, when there is one, and
\* otherwise the list holding just the first candidate; never the empty list.
C12_ProposalsFallBackToFirst ==
    (op = "get_proposals" /\ ~raised) =>
        LET query == arg[1]
            table == IF arg[2] THEN locks_as_seller ELSE locks_as_buyer
            after == AgentStateApply(CurrentAgentState, table,
                                     game_configuration[1].tx_fee).current_holdings
            candidates == CandidateProposals(GoodPbks, after, arg[2])
            accepted == SelectSeq(candidates, LAMBDA c : c.good \in query)
        IN  /\ candidates # <<>>
            /\ ret[1] # <<>>
            /\ accepted # <<>> => ret[1] = accepted
            /\ accepted = <<>> => ret[1] = <<candidates[1]>>

\* The strategy gave two candidates, the query accepts neither, and the call
\* returned the first candidate alone.
C12_Witness ==
    /\ op = "get_proposals" /\ ~raised
    /\ arg = <<{"good_c"}, FALSE>>
    /\ Len(CandidateProposals(GoodPbks, StateAfterLocks(FALSE).current_holdings, FALSE)) = 2
    /\ ret[1] = <<[good |-> "good_a", quantity |-> 1]>>

\* C13: after a completed init or on_state_update the world state is present
\* exactly when the strategy's world-modeling flag was true at that call, and
\* from a completed init on no operation, a repeated init or on_state_update
\* under another flag value included, changes whether it is present.
C13_WorldStatePresenceFixedAtInit ==
    [][/\ (op' \in {"init", "on_state_update"} /\ ~raised') =>
              (world_state' # None) = is_world_modeling'
       /\ (op \in {"init", "on_state_update"} /\ ~raised) =>
              (world_state' = None) = (world_state = None)
      ]_vars

\* C14: with world modeling enabled, after a completed init(game_data,
\* agent_pbk) the opponents of the world state are the configured agent public
\* keys without agent_pbk: {agent_1, agent_3} for own key agent_2.
C14_OpponentsExcludeOwnKey ==
    (op = "init" /\ ~raised /\ is_world_modeling) =>
        /\ world_state # None
        /\ world_state[1].opponent_pbks = arg[1].agent_pbk_to_name \ {arg[2]}
        /\ arg[2] \notin world_state[1].opponent_pbks
        /\ arg[2] = "agent_2" => world_state[1].opponent_pbks = {"agent_1", "agent_3"}
        /\ game_configuration[1].agent_pbks = arg[1].agent_pbk_to_name

\* init completed for own key agent_2 under world modeling.
C14_Witness ==
    /\ op = "init" /\ ~raised /\ is_world_modeling
    /\ arg[2] = "agent_2"
    /\ world_state # None
    /\ world_state[1].opponent_pbks = {"agent_1", "agent_3"}

\* C15: the constructor starts the lock manager always and the statistics
\* manager and the dashboard exactly when a dashboard is attached; no later
\* operation of the game instance starts any of them (the dashboard changes
\* only by its own start() and stop(), called on it from outside); stop()
\* leaves the lock manager and the statistics manager stopped, also when the
\* statistics manager was never started, and leaves the dashboard as it was,
\* running or not.
C15_OwnedSubsystemLifecycle ==
    /\ op = "__init__" =>
           /\ lock_manager_running
           /\ stats_manager_running = dashboard
           /\ dashboard_running = dashboard
    /\ [][/\ ~stats_manager_running => ~stats_manager_running'
          /\ op' \notin {"dashboard.start", "dashboard.stop"} =>
                dashboard_running' = dashboard_running
          /\ ~lock_manager_running => ~lock_manager_running'
          /\ op' = "stop" =>
                /\ ~lock_manager_running'
                /\ ~stats_manager_running'
                /\ dashboard_running' = dashboard_running
          /\ op' # "stop" =>
                /\ lock_manager_running' = lock_manager_running
                /\ stats_manager_running' = stats_manager_running
         ]_vars

\* stop() was called on an instance with a dashboard after a state update: the
\* two managers are stopped and the dashboard still runs.
C15_Witness ==
    /\ op = "stop"
    /\ dashboard /\ dashboard_running
    /\ ~lock_manager_running /\ ~stats_manager_running
    /\ game_phase = GAME

\* C20: the two gates are independent. A poll of one gate leaves the other
\* gate's last time alone, and its result depends only on the clock, the
\* interval and the gate's own history (the time it last returned true, or its
\* start value), so the results of one gate are the same whether or not the
\* other gate is polled in between; neither gate changes the game phase, the
\* game state or the search ids.
C20_GatesIndependent ==
    [][/\ op' = "is_time_to_update_services" =>
            LET own == IF update_fired_at = None THEN constructed_at - services_interval
                       ELSE update_fired_at[1]
            IN  /\ ret' = (now - own > services_interval)
                /\ last_search_time' = last_search_time
                /\ search_fired_at' = search_fired_at
       /\ op' = "is_time_to_search_services" =>
            LET own == IF search_fired_at = None
                       THEN constructed_at
                                - (services_interval - FirstSearchDelay(services_interval))
                       ELSE search_fired_at[1]
            IN  /\ ret' = (now - own > services_interval)
                /\ last_update_time' = last_update_time
                /\ update_fired_at' = update_fired_at
       /\ op' \in {"is_time_to_update_services", "is_time_to_search_services"} =>
            /\ game_phase' = game_phase
            /\ game_configuration' = game_configuration
            /\ objects' = objects
            /\ initial_agent_state' = initial_agent_state
            /\ agent_state' = agent_state
            /\ world_state' = world_state
            /\ search_id' = search_id
            /\ issued' = issued
      ]_vars

\* The search gate returned true for the second time after the update gate had
\* fired in between, in a running game with a search id issued.
C20_Witness ==
    /\ op = "is_time_to_search_services" /\ ret = TRUE
    /\ search_calls = 2 /\ update_calls = 2
    /\ update_fired_at # None /\ update_fired_at[1] > constructed_at
    /\ last_update_time # last_search_time
    /\ game_phase = GAME
    /\ search_id > 0

\* C16: the probe has exactly two outcomes. It ends with exit code 0 and OK!
\* as its last line only after connect and disconnect both succeeded; on any
\* failure in argument parsing, connection or disconnection it ends with exit
\* code 1, the failure's description as its last line and no OK!; in every run
\* the line Connecting to addr:port is printed before the outcome line.
C16_ProbeTwoOutcomes ==
    pc = "exited" =>
        /\ exit_code \in {Some(0), Some(1)}
        /\ Len(stdout) = 2
        /\ stdout[1].kind = "connecting"
        /\ exit_code = Some(0) =>
               session = "disconnected" /\ stdout[2] = OkLine
        /\ exit_code = Some(1) =>
               session # "disconnected" /\ stdout[2].kind = "failure"

\* C17: the scoped use of the dashboard runs start() then update() on entry and
\* stop() on exit, and releases on every exit path: whenever the `with`
\* statement has been left after its start() launched the backend process,
\* also when opening the session or update() failed, that process has been
\* terminated and its session closed.
C17_ScopedUseAlwaysReleases ==
    /\ (op = "__enter__" /\ ~raised) =>
           scope = "inside" /\ proc # None /\ viz # None /\ Len(refreshes) = 7
    /\ op = "__exit__" => proc = None /\ viz = None
    /\ (scope = "left" /\ (op = "__exit__" \/ (op = "__enter__" /\ arg[1] # "launch_fails"))) =>
           launched \notin live_procs /\ launched \notin open_sessions

\* C18: stop() is safe in every state. It never raises and leaves both handles
\* absent; when the dashboard is not running (a handle is absent) it terminates
\* no process and closes no session, and with both handles absent it changes
\* nothing, so the second of two stop() calls after one start() does nothing;
\* when running it terminates the process and closes the session it holds.
C18_StopIdempotent ==
    [][op' = "stop" =>
          /\ ~raised'
          /\ proc' = None
          /\ viz' = None
          /\ (proc = None \/ viz = None) =>
                 live_procs' = live_procs /\ open_sessions' = open_sessions
          /\ (proc = None /\ viz = None) =>
                 UNCHANGED <<launched, refreshes, scope>>
          /\ (proc # None /\ viz # None) =>
                 /\ live_procs' = live_procs \ {proc[1]}
                 /\ open_sessions' = open_sessions \ {viz[1]}
      ]_vars

\* stop() was called for the second time after one successful start(): the one
\* process launched is terminated, its session closed, both handles absent.
C18_Witness ==
    /\ op = "stop" /\ ~raised
    /\ stops = 2
    /\ launched = 1
    /\ live_procs = {} /\ open_sessions = {}
    /\ proc = None /\ viz = None

\* C19 as claimed: a completed update() refreshes the seven panels once each in
\* the order Configuration, Utilities, Initial Holdings, Current Holdings,
\* Scores, Balance history, Balances.
C19_PanelsInSpecOrder ==
    (op = "update" /\ ~raised) =>
        refreshes = <<"Configuration", "Utilities", "Initial Holdings", "Current Holdings",
                      "Scores", "Balance history", "Balances">>

\* C19 as amended: a completed update() refreshes the seven panels once each in
\* the order Configuration, Utilities, Current Holdings, Initial Holdings,
\* Scores, Balance history, Balances.
C19_PanelsInCodeOrder ==
    (op = "update" /\ ~raised) =>
        /\ Len(refreshes) = 7
        /\ \A title \in {"Configuration", "Utilities", "Initial Holdings", "Current Holdings",
                          "Scores", "Balance history", "Balances"} :
               Cardinality({i \in 1..7 : refreshes[i] = title}) = 1
        /\ refreshes[1] = "Configuration"
        /\ refreshes[2] = "Utilities"
        /\ refreshes[3] = "Current Holdings"
        /\ refreshes[4] = "Initial Holdings"
        /\ refreshes[5] = "Scores"
        /\ refreshes[6] = "Balance history"
        /\ refreshes[7] = "Balances"

\* update() completed on a running dashboard.
C19_Witness ==
    /\ op = "update" /\ ~raised
    /\ proc # None /\ viz # None
    /\ Len(refreshes) = 7

\* The init step of on_state_update(su, agent_pbk) cannot complete: the update
\* has no initial state, the initial state lacks an attribute init reads, or
\* the strategy models the world and agent_pbk is not a configured agent.
InitStepFails(su, agent_pbk) ==
    \/ "initial_state" \in su.missing
    \/ su.initial_state.missing \cap (ConfigAttrs \cup StateAttrs) # {}
    \/ is_world_modeling /\ agent_pbk \notin su.initial_state.agent_pbk_to_name

\* C21: when the init step inside on_state_update fails, the call raises
\* before the phase assignment: game_phase keeps the value it had before the
\* call, and no transaction of the update is settled on the agent state, which
\* is either the object the instance held before the call, unchanged, or the
\* state init has just built from the initial state of the update.
C21_FailedInitStopsStateUpdate ==
    [][(op' = "on_state_update" /\ InitStepFails(arg'[1], arg'[2])) =>
          /\ raised'
          /\ game_phase' = game_phase
          /\ agent_state' # None =>
                \/ /\ agent_state' = agent_state
                   /\ objects'[agent_state'[1]] = objects[agent_state[1]]
                \/ objects'[agent_state'[1]][1] = BuiltAgentState(arg'[1].initial_state)
      ]_vars

\* A state update whose initial state lacks the money failed after an earlier
\* update had completed and the control loop had moved on to game_setup: the
\* phase is still game_setup and the agent state still holds the earlier
\* replay, not the transaction of the failed update.
C21_Witness ==
    /\ op = "on_state_update" /\ raised
    /\ InitStepFails(arg[1], arg[2])
    /\ arg[1].transactions = <<BuyOneB>>
    /\ game_phase = GAME_SETUP
    /\ replayed = <<SellTwoA>>
    /\ CurrentAgentState = AgentStateApply(BuiltAgentState(built_from[1]), <<SellTwoA>>,
                                           game_configuration[1].tx_fee)

\* What the claim compares: the game configuration, the initial agent state,
\* the agent state and the game phase, by value.
StateUpdateView ==
    <<game_configuration, CurrentInitialAgentState, CurrentAgentState, game_phase>>

\* The same four after on_state_update(su, agent_pbk) on an instance whose
\* constructor has just returned.
FreshView(su, agent_pbk) ==
    LET st == OnStateUpdateEffect(FreshGameState, su, agent_pbk, is_world_modeling)
    IN  <<st.cfg, st.objs[st.initial[1]][1], st.objs[st.agent[1]][1], st.phase>>

\* C22: on_state_update rebuilds the state from scratch. Whatever init and
\* on_state_update calls, phase changes and in-place changes came before, a
\* completed on_state_update leaves the game configuration, the initial agent
\* state, the agent state and the game phase that the same call leaves on a
\* fresh instance; and a completed call that directly follows a completed call
\* with the same arguments changes none of the four (no transaction is settled
\* a second time).
C22_StateUpdateFromScratch ==
    [][(op' = "on_state_update" /\ ~raised') =>
          /\ StateUpdateView' = FreshView(arg'[1], arg'[2])
          /\ (op = "on_state_update" /\ ~raised /\ arg = arg') =>
                StateUpdateView' = StateUpdateView
      ]_vars

\* The same state update with two transactions completed twice in a row, and
\* the agent state holds one replay of them.
C22_Witness ==
    /\ op = "on_state_update" /\ ~raised
    /\ preceded_by = <<"on_state_update", arg, FALSE>>
    /\ Len(arg[1].transactions) = 2
    /\ replayed = arg[1].transactions
    /\ CurrentAgentState # CurrentInitialAgentState

====
